---- MODULE Spec2Model ----
(***************************************************************************)
(* Model of ansible_builder.containerfile.Containerfile: prepare() builds  *)
(* the instruction sequence self.steps for a multi-stage container build   *)
(* and stages files into the build context; write() persists the steps.    *)
(*                                                                         *)
(* A step (one instruction line, a Python str) is a sequence of words; the *)
(* line itself is the words joined by single blanks (Render).  The empty   *)
(* line "" is the empty sequence.  Python values that may be None, a str,  *)
(* an int or a list are tagged records (None, Str, PyInt, List, Text).     *)
(***************************************************************************)
EXTENDS Integers, Sequences, FiniteSets, TLC

VARIABLES
    definition,                             \* self.definition (read-only)
    original_galaxy_keyring,                \* self.original_galaxy_keyring
    galaxy_required_valid_signature_count,  \* self.galaxy_required_valid_signature_count
    galaxy_ignore_signature_status_codes,   \* self.galaxy_ignore_signature_status_codes
    steps,                                  \* self.steps
    origin,                                 \* for each step, the part of prepare() that appended it
    context,                                \* paths that exist under self.build_context
    warnings,                               \* logger.warning records, in order
    handled,                                \* additional_build_files entries that were copied
    written,                                \* content of the file at self.path
    pc                                      \* position inside prepare() / write()

vars == <<definition, original_galaxy_keyring, galaxy_required_valid_signature_count,
          galaxy_ignore_signature_status_codes, steps, origin, context, warnings,
          handled, written, pc>>

(***************************************************************************)
(* Bounds of the model.                                                    *)
(***************************************************************************)
MaxVersion == 3
MaxEntries == 2
MaxMatches == 2
MaxCustomLines == 2
MaxCodes == 1

(***************************************************************************)
(* Python values.                                                          *)
(***************************************************************************)
None == [py |-> "None"]
Str(s) == [py |-> "str", v |-> s]
PyInt(n) == [py |-> "int", v |-> n]
List(l) == [py |-> "list", v |-> l]
\* A str whose whitespace structure matters: a sequence of pieces, each a
\* blank " ", a newline "\n", or a piece of text without surrounding
\* whitespace and without newline.
Text(pieces) == [py |-> "text", v |-> pieces]
\* A dict, as the function from its keys to their values
Dict(f) == [py |-> "dict", v |-> f]

Whitespace == {" ", "\n"}

isinstance_str(x) == x.py \in {"str", "text"}

Truthy(x) ==
    CASE x.py = "None" -> FALSE
      [] x.py = "str"  -> x.v # ""
      [] x.py = "int"  -> x.v # 0
      [] x.py = "list" -> x.v # <<>>
      [] x.py = "text" -> x.v # <<>>
      [] x.py = "dict" -> DOMAIN x.v # {}

\* a or b
Or(a, b) == IF Truthy(a) THEN a ELSE b

RECURSIVE Concat(_)
Concat(ss) == IF ss = <<>> THEN "" ELSE Head(ss) \o Concat(Tail(ss))

RECURSIVE Join(_, _)
\* sep.join(ss)
Join(ss, sep) ==
    IF ss = <<>> THEN ""
    ELSE IF Len(ss) = 1 THEN ss[1]
    ELSE ss[1] \o sep \o Join(Tail(ss), sep)

\* repr() of a list element
Repr(x) ==
    CASE x.py = "str"  -> "'" \o x.v \o "'"
      [] x.py = "text" -> "'" \o Concat(x.v) \o "'"
      [] x.py = "int"  -> ToString(x.v)
      [] x.py = "None" -> "None"

\* The text an f-string puts for {x}: str(x)
Format(x) ==
    CASE x.py = "str"  -> x.v
      [] x.py = "text" -> Concat(x.v)
      [] x.py = "int"  -> ToString(x.v)
      [] x.py = "None" -> "None"
      [] x.py = "list" -> "[" \o Join([i \in 1..Len(x.v) |-> Repr(x.v[i])], ", ") \o "]"

RECURSIVE LStrip(_)
LStrip(pieces) ==
    IF pieces # <<>> /\ Head(pieces) \in Whitespace THEN LStrip(Tail(pieces)) ELSE pieces

RECURSIVE RStrip(_)
RStrip(pieces) ==
    IF pieces # <<>> /\ pieces[Len(pieces)] \in Whitespace
    THEN RStrip(SubSeq(pieces, 1, Len(pieces) - 1))
    ELSE pieces

\* str.strip(); a Str carries no surrounding whitespace by construction
Strip(x) == IF x.py = "text" THEN Text(RStrip(LStrip(x.v))) ELSE x

RECURSIVE SplitPieces(_, _)
\* the lines of a piece sequence, cur being the line collected so far
SplitPieces(pieces, cur) ==
    IF pieces = <<>> THEN (IF cur = "" THEN <<>> ELSE <<cur>>)
    ELSE IF Head(pieces) = "\n" THEN <<cur>> \o SplitPieces(Tail(pieces), "")
    ELSE SplitPieces(Tail(pieces), cur \o Head(pieces))

\* str.splitlines(): the lines as TLA+ strings
Splitlines(x) == IF x.py = "text" THEN SplitPieces(x.v, "") ELSE <<x.v>>

\* The line a step stands for
Render(step) == Join(step, " ")

(***************************************************************************)
(* constants.py                                                            *)
(***************************************************************************)
base_roles_path == <<"usr", "share", "ansible", "roles">>
base_collections_path == <<"usr", "share", "ansible", "collections">>
user_content_subfolder == "_build"
default_keyring_name == "keyring.gpg"
EXCL_COLLECTIONS_FILENAME == "exclude-collections.txt"
STD_BINDEP_FILENAME == "bindep.txt"
STD_GALAXY_FILENAME == "requirements.yml"
STD_PIP_FILENAME == "requirements.txt"
CONTEXT_FILES == << <<"galaxy", STD_GALAXY_FILENAME>>,
                    <<"python", STD_PIP_FILENAME>>,
                    <<"system", STD_BINDEP_FILENAME>> >>
FINAL_IMAGE_BIN_PATH == "/opt/builder/bin"
script_files == <<"assemble", "install-from-bindep", "introspect.py", "check_galaxy",
                  "check_ansible", "pip_install", "entrypoint">>

\* An absolute path from its components
AbsPath(parts) == Concat([i \in 1..Len(parts) |-> "/" \o parts[i]])
\* os.path.dirname
dirname(parts) == SubSeq(parts, 1, Len(parts) - 1)
\* os.path.join
path_join(a, b) == a \o "/" \o b

(***************************************************************************)
(* The definition (UserDefinition) as Containerfile reads it.              *)
(***************************************************************************)
Things == {"galaxy", "python", "system"}
Sections == {"prepend_base", "append_base", "prepend_galaxy", "append_galaxy",
             "prepend_builder", "append_builder", "prepend_final", "append_final"}

\* definition.get_dep_abs_path(thing, exclude=exclude): a lookup that gives
\* the same answer on every call of one run
get_dep_abs_path(d, thing, exclude) == d.deps[<<thing, exclude>>]

\* the deps list of _prepare_build_context / _prepare_introspect_assemble_steps
any_deps(d) ==
    \E exclude \in BOOLEAN : \E thing \in Things :
        Truthy(get_dep_abs_path(d, thing, exclude))

\* self.build_outputs_dir, relative to self.build_context
build_outputs_dir == user_content_subfolder
\* Path(self.build_outputs_dir).stem
context_dir == user_content_subfolder

\* Steps with the part of prepare() that appends them
Mark(lines, by) == [i \in 1..Len(lines) |-> [line |-> lines[i], by |-> by]]

(***************************************************************************)
(* _insert_global_args                                                     *)
(***************************************************************************)
global_args(d) ==
    << <<"EE_BASE_IMAGE", d.build_arg_defaults.EE_BASE_IMAGE>>,
       <<"EE_BUILDER_IMAGE", d.build_arg_defaults.EE_BUILDER_IMAGE>>,
       <<"PYCMD", Or(d.python_path, Str("/usr/bin/python3"))>>,
       <<"PYPKG", d.python_package_system>>,
       <<"PKGMGR_PRESERVE_CACHE", d.build_arg_defaults.PKGMGR_PRESERVE_CACHE>>,
       <<"ANSIBLE_GALAXY_CLI_COLLECTION_OPTS",
         d.build_arg_defaults.ANSIBLE_GALAXY_CLI_COLLECTION_OPTS>>,
       <<"ANSIBLE_GALAXY_CLI_ROLE_OPTS", d.build_arg_defaults.ANSIBLE_GALAXY_CLI_ROLE_OPTS>>,
       <<"ANSIBLE_INSTALL_REFS", d.ansible_ref_install_list>> >>
    \o (IF d.version >= 3 THEN << <<"PKGMGR", d.options.package_manager_path>> >> ELSE <<>>)

\* arg_step with the value put on every ARG line
arg_step_values_everywhere(arg, value, include_values) ==
    <<"ARG", arg \o "=\"" \o Format(value) \o "\"">>

\* the ARG directive of one argument
arg_step(arg, value, include_values) ==
    IF include_values
    THEN <<"ARG", arg \o "=\"" \o Format(value) \o "\"">>
    ELSE <<"ARG", arg>>

\* arg_omitted as the docstring words it: None or empty is left out
arg_omitted_when_empty(value) == ~Truthy(value)

\* whether an argument is skipped (the `continue` of the loop)
arg_omitted(value) == value = None

insert_global_args(d, include_values) ==
    LET emitted == SelectSeq(global_args(d), LAMBDA a : ~arg_omitted(a[2]))
    IN  [i \in 1..Len(emitted) |-> arg_step(emitted[i][1], emitted[i][2], include_values)]
        \o << <<>> >>

(***************************************************************************)
(* _insert_custom_steps                                                    *)
(***************************************************************************)
custom_lines(section_steps) ==
    IF isinstance_str(section_steps)
    THEN Splitlines(Strip(section_steps))
    ELSE [i \in 1..Len(section_steps.v) |-> Format(section_steps.v[i])]

insert_custom_steps(d, section) ==
    LET additional_steps == d.additional_build_steps
        section_steps == IF section \in DOMAIN additional_steps.v
                         THEN additional_steps.v[section] ELSE None
        lines == custom_lines(section_steps)
    IN  IF Truthy(additional_steps) /\ Truthy(section_steps)
        THEN [i \in 1..Len(lines) |-> <<lines[i]>>]
        ELSE <<>>

(***************************************************************************)
(* _create_folder_copy_files and _handle_additional_build_files            *)
(***************************************************************************)
\* the destinations of the requirement files copied by the loop over
\* constants.CONTEXT_FILES
requirement_files(d) ==
    { path_join(user_content_subfolder,
                IF exclude THEN "exclude-" \o CONTEXT_FILES[i][2] ELSE CONTEXT_FILES[i][2]) :
        <<i, exclude>> \in { x \in (1..Len(CONTEXT_FILES)) \X BOOLEAN :
            get_dep_abs_path(d, CONTEXT_FILES[x[1]][1], x[2]) # None } }

exclude_collections_file(d) ==
    IF d.exclude_all_from_collections # None
    THEN {path_join(user_content_subfolder, EXCL_COLLECTIONS_FILENAME)}
    ELSE {}

keyring_file(keyring) ==
    IF Truthy(keyring) THEN {path_join(build_outputs_dir, default_keyring_name)} ELSE {}

ansible_config_file(d) ==
    IF Truthy(d.ansible_config) THEN {path_join(build_outputs_dir, "ansible.cfg")} ELSE {}

scripts_dir == path_join(build_outputs_dir, "scripts")

copied_scripts == { path_join(scripts_dir, script_files[i]) : i \in 1..Len(script_files) }

\* entry_skipped with the `continue` of the absolute branch lost
entry_skipped_glob_only(entry) == ~entry.absolute /\ entry.matches = <<>>

\* whether an entry is skipped with a warning (the two `continue` branches)
entry_skipped(entry) == entry.matches = <<>>

\* the files one handled entry puts into the context
entry_copies(entry) ==
    LET final_dst == path_join(build_outputs_dir, entry.dest)
    IN  {final_dst} \cup
        { path_join(final_dst, entry.matches[k].name) :
            k \in { j \in 1..Len(entry.matches) : ~entry.matches[j].is_dir } }

entry_warning(entry, i) ==
    [entry |-> i,
     msg |-> IF entry.absolute THEN "User build file %s does not exist."
                               ELSE "No matches for '%s' in additional_build_files."]

RECURSIVE handle_additional_build_files(_, _, _)
\* the loop from entry i on; acc is [context, warnings, handled] so far
handle_additional_build_files(entries, i, acc) ==
    IF i > Len(entries) THEN acc
    ELSE IF entry_skipped(entries[i])
    THEN handle_additional_build_files(entries, i + 1,
            [acc EXCEPT !.warnings = Append(@, entry_warning(entries[i], i))])
    ELSE handle_additional_build_files(entries, i + 1,
            [acc EXCEPT !.context = @ \cup entry_copies(entries[i]),
                        !.handled = @ \cup {i}])

create_folder_copy_files_steps ==
    << <<"COPY", context_dir \o "/scripts/", "/output/scripts/">>,
       <<"COPY", context_dir \o "/scripts/entrypoint", FINAL_IMAGE_BIN_PATH \o "/entrypoint">> >>

(***************************************************************************)
(* The helpers that append steps                                           *)
(***************************************************************************)
\* prepare_ansible_config_file without the test that a config is declared
prepare_ansible_config_file_unchecked(d) ==
    IF d.version # 1 THEN <<>>
    ELSE << <<"COPY", path_join(user_content_subfolder, "ansible.cfg"), "~/.ansible.cfg">>,
            <<>> >>

prepare_ansible_config_file(d) ==
    IF d.version # 1 THEN <<>>
    ELSE IF Truthy(d.ansible_config)
    THEN << <<"COPY", path_join(user_content_subfolder, "ansible.cfg"), "~/.ansible.cfg">>,
            <<>> >>
    ELSE <<>>

relax_etc_passwd_permissions == << <<"RUN", "chmod", "ug+rw", "/etc/passwd">> >>

prepare_final_workdir(workdir) ==
    LET stripped == Strip(workdir)
        w == Format(stripped)
    IN  IF ~Truthy(stripped) THEN <<>>
        ELSE << <<"RUN", "mkdir", "-p", w, "&&", "chgrp", "0", w, "&&",
                  "chmod", "-R", "ug+rwx", w>>,
                <<"WORKDIR", w>> >>

prepare_label_steps == << <<"LABEL", "ansible-execution-environment=true">> >>

prepare_build_context(d) ==
    IF any_deps(d)
    THEN << <<"COPY", user_content_subfolder, "/build">>, <<"WORKDIR", "/build">>, <<>> >>
    ELSE <<>>

\* signature_mode with the environment prefix set outside the else branch
signature_mode_env_always(keyring) ==
    [env |-> <<"ANSIBLE_GALAXY_DISABLE_GPG_VERIFY=1">>,
     opts |-> IF Truthy(keyring)
              THEN <<"--keyring", "\"" \o default_keyring_name \o "\"">> ELSE <<>>]

\* the keyring-or-environment choice of _prepare_galaxy_install_steps:
\* [env, opts] to put before the command and at the end of install_opts
signature_mode(keyring) ==
    IF Truthy(keyring)
    THEN [env |-> <<>>, opts |-> <<"--keyring", "\"" \o default_keyring_name \o "\"">>]
    ELSE [env |-> <<"ANSIBLE_GALAXY_DISABLE_GPG_VERIFY=1">>, opts |-> <<>>]

RECURSIVE ignore_code_opts(_)
ignore_code_opts(codes) ==
    IF codes = <<>> THEN <<>>
    ELSE <<"--ignore-signature-status-code", Format(Head(codes))>>
         \o ignore_code_opts(Tail(codes))

prepare_galaxy_install_steps(keyring, count, codes) ==
    LET mode == signature_mode(keyring)
        install_opts ==
            <<"-r", STD_GALAXY_FILENAME,
              "--collections-path", "\"" \o AbsPath(base_collections_path) \o "\"">>
            \o (IF Truthy(codes) THEN ignore_code_opts(codes.v) ELSE <<>>)
            \o (IF Truthy(count)
                THEN <<"--required-valid-signature-count", Format(count)>> ELSE <<>>)
            \o mode.opts
    IN  << <<"RUN", "mkdir", "-p", AbsPath(dirname(base_collections_path))>>,
           <<"RUN", "ansible-galaxy", "role", "install", "$ANSIBLE_GALAXY_CLI_ROLE_OPTS",
             "-r", STD_GALAXY_FILENAME,
             "--roles-path", "\"" \o AbsPath(base_roles_path) \o "\"">>,
           <<"RUN">> \o mode.env
             \o <<"ansible-galaxy", "collection", "install",
                  "$ANSIBLE_GALAXY_CLI_COLLECTION_OPTS">>
             \o install_opts >>

\* os.path.exists(os.path.join(self.build_outputs_dir, filename))
file_exists(ctx, filename) == path_join(build_outputs_dir, filename) \in ctx

\* the COPY step of _add_copy_for_file, when the file exists
add_copy_for_file(ctx, filename) ==
    IF file_exists(ctx, filename)
    THEN << <<"COPY", path_join(user_content_subfolder, filename), filename>> >>
    ELSE <<>>

introspect_options ==
    << <<"--user-pip", STD_PIP_FILENAME>>,
       <<"--exclude-pip-reqs", "exclude-" \o STD_PIP_FILENAME>>,
       <<"--user-bindep", STD_BINDEP_FILENAME>>,
       <<"--exclude-bindep-reqs", "exclude-" \o STD_BINDEP_FILENAME>>,
       <<"--exclude-collection-reqs", EXCL_COLLECTIONS_FILENAME>> >>

RECURSIVE introspect_walk(_, _, _)
\* from option i on: [copies, flags] added to acc
introspect_walk(ctx, i, acc) ==
    IF i > Len(introspect_options) THEN acc
    ELSE LET option == introspect_options[i][1]
             req_file == introspect_options[i][2]
             copy == add_copy_for_file(ctx, req_file)
         IN  introspect_walk(ctx, i + 1,
                IF copy # <<>>
                THEN [copies |-> acc.copies \o copy,
                      flags |-> Append(acc.flags, option \o "=" \o req_file)]
                ELSE acc)

prepare_introspect_assemble_steps(d, ctx) ==
    IF any_deps(d)
    THEN LET walk == introspect_walk(ctx, 1, [copies |-> <<>>, flags |-> <<>>])
         IN  walk.copies
             \o << <<"RUN", "$PYCMD", "/output/scripts/introspect.py", "introspect">>
                     \o walk.flags
                     \o <<"--write-bindep=/tmp/src/bindep.txt",
                          "--write-pip=/tmp/src/requirements.txt">>,
                   <<"RUN", "/output/scripts/assemble">> >>
    ELSE <<>>

prepare_system_runtime_deps_steps ==
    << <<"COPY", "--from=builder", "/output/", "/output/">>,
       <<"RUN", "/output/scripts/install-from-bindep", "&&", "rm", "-rf", "/output/wheels">> >>

\* prepare_galaxy_copy_steps without the test for a galaxy requirement
prepare_galaxy_copy_steps_always(d) ==
    LET dir_name == AbsPath(dirname(base_collections_path))
    IN  << <<>>, <<"COPY", "--from=galaxy", dir_name, dir_name>>, <<>> >>

prepare_galaxy_copy_steps(d) ==
    IF Truthy(get_dep_abs_path(d, "galaxy", FALSE))
    THEN LET dir_name == AbsPath(dirname(base_collections_path))
         IN  << <<>>, <<"COPY", "--from=galaxy", dir_name, dir_name>>, <<>> >>
    ELSE <<>>

\* prepare_entrypoint_steps with the two appends in the other order
prepare_entrypoint_steps_cmd_first(d) ==
    (IF Truthy(d.container_init.cmd)
     THEN << <<"CMD", Format(d.container_init.cmd)>> >> ELSE <<>>)
    \o (IF Truthy(d.container_init.entrypoint)
        THEN << <<"ENTRYPOINT", Format(d.container_init.entrypoint)>> >> ELSE <<>>)

prepare_entrypoint_steps(d) ==
    (IF Truthy(d.container_init.entrypoint)
     THEN << <<"ENTRYPOINT", Format(d.container_init.entrypoint)>> >> ELSE <<>>)
    \o (IF Truthy(d.container_init.cmd)
        THEN << <<"CMD", Format(d.container_init.cmd)>> >> ELSE <<>>)

prepare_user_steps(uid) == << <<"USER", Format(uid)>> >>

(***************************************************************************)
(* prepare(), stage by stage: the steps each part appends, in order, with  *)
(* the part that appends them                                              *)
(***************************************************************************)
base_stage_header ==
    << <<"#", "Base", "build", "stage">>,
       <<"FROM", "$EE_BASE_IMAGE", "as", "base">>,
       <<"USER", "root">>,
       <<"ENV", "PIP_BREAK_SYSTEM_PACKAGES=1">> >>

system_package_step ==
    <<"RUN", "$PKGMGR", "install", "$PYPKG", "-y", ";", "if", "[", "-z",
      "$PKGMGR_PRESERVE_CACHE", "];", "then", "$PKGMGR", "clean", "all;", "fi">>
pip_bootstrap_step == <<"RUN", "/output/scripts/pip_install", "$PYCMD">>
install_refs_step ==
    <<"RUN", "$PYCMD", "-m", "pip", "install", "--no-cache-dir", "$ANSIBLE_INSTALL_REFS">>

\* base_install_steps with the install-refs step moved to the front
base_install_steps_refs_first(d) ==
    IF ~Truthy(d.builder_image)
    THEN (IF Truthy(d.ansible_ref_install_list) THEN <<install_refs_step>> ELSE <<>>)
         \o (IF Truthy(d.python_package_system) THEN <<system_package_step>> ELSE <<>>)
         \o (IF d.version >= 3 /\ ~d.options.skip_pip_install
             THEN <<pip_bootstrap_step>> ELSE <<>>)
    ELSE <<>>

\* lines 87-97
base_install_steps(d) ==
    IF ~Truthy(d.builder_image)
    THEN (IF Truthy(d.python_package_system) THEN <<system_package_step>> ELSE <<>>)
         \o (IF d.version >= 3 /\ ~d.options.skip_pip_install
             THEN <<pip_bootstrap_step>> ELSE <<>>)
         \o (IF Truthy(d.ansible_ref_install_list) THEN <<install_refs_step>> ELSE <<>>)
    ELSE <<>>

\* lines 85-99
base_stage_steps(d) ==
    Mark(insert_custom_steps(d, "prepend_base"), "prepend_base")
    \o Mark(base_install_steps(d), "prepare")
    \o Mark(insert_custom_steps(d, "append_base"), "append_base")

galaxy_stage_header ==
    << <<>>, <<"#", "Galaxy", "build", "stage">>, <<"FROM", "base", "as", "galaxy">> >>

\* lines 107-124
galaxy_stage_steps(d, keyring, count, codes) ==
    IF Truthy(get_dep_abs_path(d, "galaxy", FALSE))
    THEN Mark(galaxy_stage_header, "stage")
         \o Mark(insert_global_args(d, FALSE), "stage_args")
         \o Mark(insert_custom_steps(d, "prepend_galaxy"), "prepend_galaxy")
         \o Mark(<< <<"RUN", "/output/scripts/check_galaxy">> >>, "prepare")
         \o Mark(prepare_ansible_config_file(d), "_prepare_ansible_config_file")
         \o Mark(prepare_build_context(d), "_prepare_build_context")
         \o Mark(prepare_galaxy_install_steps(keyring, count, codes),
                 "_prepare_galaxy_install_steps")
         \o Mark(insert_custom_steps(d, "append_galaxy"), "append_galaxy")
    ELSE <<>>

\* builder_from_image with the dedicated builder image for every definition
builder_from_image_always_dedicated(d) == "$EE_BUILDER_IMAGE"

\* lines 130-135
builder_from_image(d) ==
    IF Truthy(d.builder_image) \/ d.version = 1 THEN "$EE_BUILDER_IMAGE" ELSE "base"

builder_stage_header(image) ==
    << <<>>, <<"#", "Builder", "build", "stage">>, <<"FROM", image, "as", "builder">>,
       <<"ENV", "PIP_BREAK_SYSTEM_PACKAGES=1">>, <<"WORKDIR", "/build">> >>

\* lines 147-153
builder_preinstall_steps(image) ==
    IF image = "base"
    THEN << <<"RUN", "$PYCMD", "-m", "pip", "install", "--no-cache-dir",
              "bindep", "pyyaml", "packaging">> >>
    ELSE << <<"COPY", context_dir \o "/scripts/pip_install", "/output/scripts/pip_install">>,
            <<"RUN", "/output/scripts/pip_install", "$PYCMD">> >>

\* lines 130-158
builder_stage_steps(d, ctx) ==
    LET image == builder_from_image(d)
    IN  Mark(builder_stage_header(image), "stage")
        \o Mark(insert_global_args(d, FALSE), "stage_args")
        \o Mark(builder_preinstall_steps(image), "prepare")
        \o Mark(insert_custom_steps(d, "prepend_builder"), "prepend_builder")
        \o Mark(prepare_galaxy_copy_steps(d), "_prepare_galaxy_copy_steps")
        \o Mark(prepare_introspect_assemble_steps(d, ctx),
                "_prepare_introspect_assemble_steps")
        \o Mark(insert_custom_steps(d, "append_builder"), "append_builder")

final_stage_header ==
    << <<>>, <<"#", "Final", "build", "stage">>, <<"FROM", "base", "as", "final">>,
       <<"ENV", "PIP_BREAK_SYSTEM_PACKAGES=1">> >>

\* lines 174-191
final_stage_logic(d) ==
    Mark(IF d.version >= 3 /\ ~d.options.skip_ansible_check
         THEN << <<"RUN", "/output/scripts/check_ansible", "$PYCMD">> >> ELSE <<>>,
         "prepare")
    \o Mark(prepare_galaxy_copy_steps(d), "_prepare_galaxy_copy_steps")
    \o Mark(prepare_system_runtime_deps_steps, "_prepare_system_runtime_deps_steps")
    \o Mark(IF d.version >= 3 /\ d.options.relax_passwd_permissions
            THEN relax_etc_passwd_permissions ELSE <<>>,
            "_relax_etc_passwd_permissions")
    \o Mark(IF d.version >= 3 /\ Truthy(d.options.workdir)
            THEN prepare_final_workdir(d.options.workdir) ELSE <<>>,
            "_prepare_final_workdir")
    \o Mark(IF Truthy(d.container_init.package_pip)
            THEN << <<"RUN", "$PYCMD", "-m", "pip", "install", "--no-cache-dir",
                      "'" \o Format(d.container_init.package_pip) \o "'">> >>
            ELSE <<>>,
            "prepare")

\* lines 195-201
final_stage_closing(d) ==
    Mark(<< <<"RUN", "rm", "-rf", "/output">> >>, "prepare")
    \o Mark(prepare_label_steps, "_prepare_label_steps")
    \o Mark(IF d.version >= 3 /\ Truthy(d.options.user)
            THEN prepare_user_steps(d.options.user) ELSE <<>>,
            "_prepare_user_steps")
    \o Mark(prepare_entrypoint_steps(d), "_prepare_entrypoint_steps")

\* final_stage_steps with the append_final steps put after the closing steps
final_stage_steps_append_last(d) ==
    Mark(final_stage_header, "stage")
    \o Mark(insert_global_args(d, FALSE), "stage_args")
    \o Mark(insert_custom_steps(d, "prepend_final"), "prepend_final")
    \o final_stage_logic(d)
    \o final_stage_closing(d)
    \o Mark(insert_custom_steps(d, "append_final"), "append_final")

\* lines 164-201
final_stage_steps(d) ==
    Mark(final_stage_header, "stage")
    \o Mark(insert_global_args(d, FALSE), "stage_args")
    \o Mark(insert_custom_steps(d, "prepend_final"), "prepend_final")
    \o final_stage_logic(d)
    \o Mark(insert_custom_steps(d, "append_final"), "append_final")
    \o final_stage_closing(d)

(***************************************************************************)
(* Actions                                                                 *)
(***************************************************************************)
inputs == <<definition, original_galaxy_keyring, galaxy_required_valid_signature_count,
            galaxy_ignore_signature_status_codes>>

\* self.steps.extend(...) of marked steps
Extend(marked) ==
    /\ steps' = steps \o [i \in 1..Len(marked) |-> marked[i].line]
    /\ origin' = origin \o [i \in 1..Len(marked) |-> marked[i].by]

\* line 69
InsertTopArgs ==
    /\ pc = "prepare"
    /\ Extend(Mark(insert_global_args(definition, TRUE), "global_args"))
    /\ pc' = "base"
    /\ UNCHANGED <<inputs, context, warnings, handled, written>>

\* lines 76-83
BaseStageHeader ==
    /\ pc = "base"
    /\ Extend(Mark(base_stage_header, "stage")
              \o Mark(insert_global_args(definition, FALSE), "stage_args"))
    /\ pc' = "context"
    /\ UNCHANGED <<inputs, context, warnings, handled, written>>

\* line 84
CreateFolderCopyFiles ==
    /\ pc = "context"
    /\ LET staged == context \cup {build_outputs_dir, scripts_dir}
                     \cup requirement_files(definition)
                     \cup exclude_collections_file(definition)
                     \cup keyring_file(original_galaxy_keyring)
           added == handle_additional_build_files(
                        definition.additional_build_files, 1,
                        [context |-> staged, warnings |-> warnings, handled |-> handled])
       IN  /\ context' = added.context \cup ansible_config_file(definition)
                         \cup copied_scripts
           /\ warnings' = added.warnings
           /\ handled' = added.handled
    /\ Extend(Mark(create_folder_copy_files_steps, "_create_folder_copy_files"))
    /\ pc' = "base_steps"
    /\ UNCHANGED <<inputs, written>>

\* lines 85-99
BaseStage ==
    /\ pc = "base_steps"
    /\ Extend(base_stage_steps(definition))
    /\ pc' = "galaxy"
    /\ UNCHANGED <<inputs, context, warnings, handled, written>>

\* lines 107-124
GalaxyStage ==
    /\ pc = "galaxy"
    /\ Extend(galaxy_stage_steps(definition, original_galaxy_keyring,
                                 galaxy_required_valid_signature_count,
                                 galaxy_ignore_signature_status_codes))
    /\ pc' = "builder"
    /\ UNCHANGED <<inputs, context, warnings, handled, written>>

\* lines 130-158
BuilderStage ==
    /\ pc = "builder"
    /\ Extend(builder_stage_steps(definition, context))
    /\ pc' = "final"
    /\ UNCHANGED <<inputs, context, warnings, handled, written>>

\* lines 164-201
FinalStage ==
    /\ pc = "final"
    /\ Extend(final_stage_steps(definition))
    /\ pc' = "done"
    /\ UNCHANGED <<inputs, context, warnings, handled, written>>

\* write(): one line per step
Write ==
    /\ pc = "done"
    /\ written' = [i \in 1..Len(steps) |-> Render(steps[i])]
    /\ pc' = "written"
    /\ UNCHANGED <<inputs, steps, origin, context, warnings, handled>>

Next ==
    \/ InsertTopArgs
    \/ BaseStageHeader
    \/ CreateFolderCopyFiles
    \/ BaseStage
    \/ GalaxyStage
    \/ BuilderStage
    \/ FinalStage
    \/ Write

(***************************************************************************)
(* Inputs: the definitions, constructor arguments and build-context        *)
(* contents prepare() is run on.                                           *)
(***************************************************************************)
Versions == 1..MaxVersion

\* constants.build_arg_defaults; EE_BUILDER_IMAGE is cleared for v3+ schemas
default_build_args(version) ==
    [ANSIBLE_GALAXY_CLI_COLLECTION_OPTS |-> Str(""),
     ANSIBLE_GALAXY_CLI_ROLE_OPTS |-> Str(""),
     EE_BASE_IMAGE |-> Str("quay.io/ansible/ansible-runner:latest"),
     EE_BUILDER_IMAGE |-> IF version >= 3 THEN None
                          ELSE Str("quay.io/ansible/ansible-builder:latest"),
     PKGMGR_PRESERVE_CACHE |-> Str("")]

NoDeps == [x \in Things \X BOOLEAN |-> None]

\* deps with the given <<thing, exclude>> pairs resolvable
DepsOf(present) ==
    [x \in Things \X BOOLEAN |->
        IF x \in present
        THEN Str("/ee/" \o (IF x[2] THEN "exclude-" ELSE "") \o x[1])
        ELSE None]

\* A definition that declares nothing beyond its schema version
PlainDefinition(version) ==
    [version |-> version,
     filename |-> "/ee/execution-environment.yml",
     builder_image |-> None,
     python_package_system |-> None,
     python_path |-> None,
     ansible_ref_install_list |-> None,
     ansible_config |-> None,
     build_arg_defaults |-> default_build_args(version),
     options |-> [skip_pip_install |-> FALSE,
                  skip_ansible_check |-> FALSE,
                  relax_passwd_permissions |-> FALSE,
                  workdir |-> None,
                  user |-> None,
                  package_manager_path |-> Str("/usr/bin/dnf")],
     deps |-> NoDeps,
     exclude_all_from_collections |-> None,
     additional_build_steps |-> None,
     additional_build_files |-> <<>>,
     container_init |-> [entrypoint |-> None, cmd |-> None, package_pip |-> None]]

Maybe(x) == {None, x}

\* the k-th line a user gives in a custom section
CustomLine(k) == "RUN echo " \o ToString(k)
CustomList(n) == List([k \in 1..n |-> Str(CustomLine(k))])
RECURSIVE BlockPieces(_, _)
BlockPieces(k, n) ==
    IF k > n THEN <<>> ELSE <<CustomLine(k), "\n">> \o BlockPieces(k + 1, n)
\* the same lines as one YAML block: a leading blank, a newline after each line
CustomBlock(n) == Text(<<" ">> \o BlockPieces(1, n))

\* additional_build_steps values: nothing, an empty dict, one section with
\* one line, or every section with the same list or block of lines
CustomSteps ==
    {None, Dict(<<>>)}
    \cup { Dict([s \in {section} |-> CustomList(1)]) : section \in Sections }
    \cup { Dict([s \in Sections |-> CustomList(n)]) : n \in 1..MaxCustomLines }
    \cup { Dict([s \in Sections |-> CustomBlock(n)]) : n \in 1..MaxCustomLines }

\* the k-th path the glob of an entry yields on the host
Match(k) == [name |-> "match" \o ToString(k), is_dir |-> (k % 2 = 0)]
\* additional_build_files entries with what their src resolves to on the
\* host: an absolute src exists (one match) or not; a relative glob has
\* 0..MaxMatches matches
Entries ==
    { [absolute |-> TRUE, matches |-> [k \in 1..n |-> Match(1)], dest |-> dest] :
        <<n, dest>> \in (0..1) \X {"configs", "data"} }
    \cup
    { [absolute |-> FALSE, matches |-> [k \in 1..n |-> Match(k)], dest |-> dest] :
        <<n, dest>> \in (0..MaxMatches) \X {"configs", "data"} }

RECURSIVE SeqsUpTo(_, _)
\* the sequences over S of length at most n
SeqsUpTo(S, n) ==
    IF n = 0 THEN {<<>>}
    ELSE LET shorter == SeqsUpTo(S, n - 1)
         IN  shorter \cup { Append(q, x) : <<q, x>> \in shorter \X S }

\* paths a previous run may have left in the build context
StalePaths == { path_join(user_content_subfolder, STD_BINDEP_FILENAME),
                path_join(user_content_subfolder, "exclude-" \o STD_PIP_FILENAME) }

StatusCodes == { List(c) : c \in SeqsUpTo({Str("NO_PUBKEY")}, MaxCodes) }

InitFrom(Definitions, Keyrings, Counts, Codes, Contexts) ==
    /\ definition \in Definitions
    /\ original_galaxy_keyring \in Keyrings
    /\ galaxy_required_valid_signature_count \in Counts
    /\ galaxy_ignore_signature_status_codes \in Codes
    /\ context \in Contexts
    /\ steps = <<>>
    /\ origin = <<>>
    /\ warnings = <<>>
    /\ handled = {}
    /\ written = <<>>
    /\ pc = "prepare"

\* Stage structure: versions, builder image, galaxy/python dependencies,
\* the base-stage installs and the custom steps
StructureDefinitions ==
    { [PlainDefinition(v) EXCEPT
          !.builder_image = b,
          !.deps = DepsOf(g \cup p),
          !.python_package_system = pkg,
          !.ansible_ref_install_list = refs,
          !.options.skip_pip_install = skip,
          !.additional_build_steps = custom] :
      <<v, b, g, p, pkg, refs, skip, custom>> \in
          Versions \X Maybe(Str("quay.io/ansible/ansible-builder:latest"))
          \X {{}, {<<"galaxy", FALSE>>}} \X {{}, {<<"python", FALSE>>}}
          \X Maybe(Str("python39")) \X Maybe(Str("ansible-core ansible-runner"))
          \X BOOLEAN \X CustomSteps }

Init == InitFrom(StructureDefinitions, Maybe(Str("/ee/keyring.gpg")), {None}, {None}, {{}})

Spec == Init /\ [][Next]_vars

\* Signature verification: keyring, signature count and status codes, with
\* and without a galaxy requirement
GalaxyDefinitions ==
    { [PlainDefinition(v) EXCEPT
          !.deps = DepsOf(present),
          !.ansible_config = cfg] :
      <<v, present, cfg>> \in
          Versions \X (SUBSET {<<"galaxy", FALSE>>, <<"python", FALSE>>})
          \X Maybe(Str("/ee/ansible.cfg")) }

InitGalaxy ==
    InitFrom(GalaxyDefinitions, Maybe(Str("/ee/keyring.gpg")),
             {None, PyInt(0), PyInt(1)}, {None} \cup StatusCodes, {{}})

SpecGalaxy == InitGalaxy /\ [][Next]_vars

\* Staging: every combination of resolvable requirement and exclude files,
\* on a build context a previous run may have left files in
ContextDefinitions ==
    { [PlainDefinition(v) EXCEPT
          !.builder_image = b,
          !.deps = DepsOf(present),
          !.exclude_all_from_collections = excl,
          !.ansible_config = cfg] :
      <<v, b, present, excl, cfg>> \in
          Versions \X Maybe(Str("quay.io/ansible/ansible-builder:latest"))
          \X (SUBSET (Things \X BOOLEAN))
          \X Maybe(List(<<Str("community.general")>>))
          \X Maybe(Str("/ee/ansible.cfg")) }

InitContext == InitFrom(ContextDefinitions, {None}, {None}, {None}, SUBSET StalePaths)

SpecContext == InitContext /\ [][Next]_vars

\* The end of the final stage: container-init settings and the options
\* read after the append_final steps
FinalDefinitions ==
    { [PlainDefinition(v) EXCEPT
          !.container_init = [entrypoint |-> ep, cmd |-> cmd, package_pip |-> pkg],
          !.options.user = user,
          !.options.workdir = workdir,
          !.options.relax_passwd_permissions = relax,
          !.options.skip_ansible_check = skip,
          !.additional_build_steps = custom] :
      <<v, ep, cmd, pkg, user, workdir, relax, skip, custom>> \in
          Versions \X Maybe(Str("/bin/sh"))
          \X {None, Str("[\"bash\"]"), List(<<Str("-c"), Str("true")>>)}
          \X Maybe(Str("dumb-init==1.2.5")) \X Maybe(Str("1000"))
          \X {None, Text(<<"/runner">>), Text(<<" ">>)}
          \X BOOLEAN \X BOOLEAN
          \X {None, Dict([s \in {"append_final"} |-> CustomList(1)])} }

InitFinal == InitFrom(FinalDefinitions, {None}, {None}, {None}, {{}})

SpecFinal == InitFinal /\ [][Next]_vars

\* Build arguments: absent, empty and set values
ArgDefinitions ==
    { [PlainDefinition(v) EXCEPT
          !.deps = DepsOf(g),
          !.build_arg_defaults =
              [ANSIBLE_GALAXY_CLI_COLLECTION_OPTS |-> copts,
               ANSIBLE_GALAXY_CLI_ROLE_OPTS |-> ropts,
               EE_BASE_IMAGE |-> base,
               EE_BUILDER_IMAGE |-> IF v >= 3 THEN None ELSE builder,
               PKGMGR_PRESERVE_CACHE |-> cache],
          !.python_path = py,
          !.python_package_system = pkg,
          !.ansible_ref_install_list = refs,
          !.options.package_manager_path = mgr] :
      <<v, g, copts, ropts, base, builder, cache, py, pkg, refs, mgr>> \in
          Versions \X {{}, {<<"galaxy", FALSE>>}}
          \X {None, Str("")} \X {None, Str("")}
          \X Maybe(Str("registry.example/ee base:1")) \X Maybe(Str("registry.example/builder:1"))
          \X {None, Str(""), Str("always")}
          \X Maybe(Str("/usr/bin/python3.11")) \X Maybe(Str("python311"))
          \X {None, Str(""), Str("ansible-core ansible-runner")}
          \X Maybe(Str("/usr/bin/microdnf")) }

InitArgs == InitFrom(ArgDefinitions, {None}, {None}, {None}, {{}})

SpecArgs == InitArgs /\ [][Next]_vars

\* Additional build files: entries whose src exists, is missing, matches or
\* matches nothing
FileDefinitions ==
    { [PlainDefinition(v) EXCEPT
          !.additional_build_files = entries,
          !.ansible_config = cfg] :
      <<v, entries, cfg>> \in
          Versions \X SeqsUpTo(Entries, MaxEntries) \X Maybe(Str("/ee/ansible.cfg")) }

InitFiles == InitFrom(FileDefinitions, {None}, {None}, {None}, {{}})

SpecFiles == InitFiles /\ [][Next]_vars

(***************************************************************************)
(* Reading the generated sequence                                          *)
(***************************************************************************)
Keyword(step) == IF step = <<>> THEN "" ELSE step[1]
Last(S) == CHOOSE m \in S : \A x \in S : x <= m
First(S) == CHOOSE m \in S : \A x \in S : m <= x
\* for each step, the FROM line that opens the stage it lies in; 0 before
\* the first FROM
StageStarts ==
    LET froms == { j \in DOMAIN steps : Keyword(steps[j]) = "FROM" }
    IN  [i \in DOMAIN steps |->
            LET before == { f \in froms : f <= i }
            IN  IF before = {} THEN 0 ELSE Last(before)]
\* for each step, the name of its stage; "" before the first FROM
StageOf ==
    LET start == StageStarts
    IN  [i \in DOMAIN steps |-> IF start[i] = 0 THEN "" ELSE steps[start[i]][4]]
StageNames == LET stage == StageOf IN { stage[i] : i \in DOMAIN steps } \ {""}
\* the steps a part of prepare() appended
By(tag) == { i \in DOMAIN steps : origin[i] = tag }
IsCustom(i) == origin[i] \in Sections
ArgNames == {"EE_BASE_IMAGE", "EE_BUILDER_IMAGE", "PYCMD", "PYPKG", "PKGMGR_PRESERVE_CACHE",
             "ANSIBLE_GALAXY_CLI_COLLECTION_OPTS", "ANSIBLE_GALAXY_CLI_ROLE_OPTS",
             "ANSIBLE_INSTALL_REFS", "PKGMGR"}
\* the ARG lines the assembler generated
IsArg(i) == ~IsCustom(i) /\ Keyword(steps[i]) = "ARG"
IsBareArg(i) == IsArg(i) /\ steps[i][2] \in ArgNames
Finished == pc \in {"done", "written"}
GalaxyResolves == Truthy(get_dep_abs_path(definition, "galaxy", FALSE))
HasCustomSteps == Truthy(definition.additional_build_steps)

(***************************************************************************)
(* C1                                                                      *)
(***************************************************************************)
\* the ARG lines before the first FROM carry values, those of a stage are bare
OnlyTopBlockHasValues ==
    LET start == StageStarts
    IN  \A i \in DOMAIN steps : IsArg(i) => (IsBareArg(i) <=> start[i] # 0)

\* C1 as stated: in every stage the ARG re-declarations come directly after
\* the FROM line, before any USER/ENV/WORKDIR/COPY/RUN line of the stage,
\* and only the top-of-file block carries literal values.
C1_ArgsDirectlyAfterFrom ==
    LET start == StageStarts
    IN  /\ OnlyTopBlockHasValues
        /\ \A i \in DOMAIN steps : IsArg(i) /\ start[i] # 0 =>
              \A j \in start[i]..i : Keyword(steps[j]) \in {"FROM", "ARG"}

\* C1, amended: in every stage the ARG re-declarations come after the FROM
\* line and the fixed USER/ENV/WORKDIR lines of the stage header and before
\* every COPY and RUN instruction and every custom step of the stage; the
\* block before the first FROM is the only one whose ARG lines carry
\* values, every ARG line inside a stage is bare; and every stage has its
\* block (closed by the blank line) before its first COPY, RUN or custom step.
C1_ArgsBeforeStageInstructions ==
    LET start == StageStarts
        \* for each stage (by its FROM line), the blank line closing its ARG block
        closing == [f \in {start[i] : i \in DOMAIN steps} \ {0} |->
                      { j \in DOMAIN steps :
                          start[j] = f /\ origin[j] = "stage_args" /\ steps[j] = <<>> }]
    IN  /\ OnlyTopBlockHasValues
        /\ \A f \in DOMAIN closing : Cardinality(closing[f]) = 1
        /\ \A i \in DOMAIN steps : start[i] # 0 =>
              LET end == First(closing[start[i]])
              IN  /\ IsArg(i) => i < end
                  /\ i < end =>
                        /\ ~IsCustom(i)
                        /\ Keyword(steps[i]) \in {"FROM", "USER", "ENV", "WORKDIR", "ARG"}
                  /\ (IsCustom(i) \/ Keyword(steps[i]) \in {"COPY", "RUN"}) => i > end
        /\ \A i \in By("global_args") : start[i] = 0

C1_Witness ==
    LET stage == StageOf
    IN  /\ Finished
        /\ StageNames = {"base", "galaxy", "builder", "final"}
        /\ HasCustomSteps
        /\ Truthy(definition.python_package_system)
        /\ \E i \in DOMAIN steps : IsBareArg(i) /\ stage[i] = "final"
        /\ \E i \in DOMAIN steps : IsArg(i) /\ ~IsBareArg(i)

(***************************************************************************)
(* C2                                                                      *)
(***************************************************************************)
HasGalaxyStage == \E i \in DOMAIN steps : steps[i] = <<"FROM", "base", "as", "galaxy">>
HasGalaxyCopy ==
    \E i \in DOMAIN steps :
        Len(steps[i]) >= 2 /\ steps[i][1] = "COPY" /\ steps[i][2] = "--from=galaxy"

\* C2: when no galaxy dependency file resolves, the sequence never holds a
\* galaxy stage nor a COPY --from=galaxy; when one resolves, the finished
\* sequence holds the galaxy stage.
C2_GalaxyStageIffResolvable ==
    /\ ~GalaxyResolves => ~HasGalaxyStage /\ ~HasGalaxyCopy
    /\ (GalaxyResolves /\ Finished) => HasGalaxyStage /\ "galaxy" \in StageNames

C2_Witness ==
    /\ Finished
    /\ ~GalaxyResolves
    /\ any_deps(definition)
    /\ HasCustomSteps
    /\ StageNames = {"base", "builder", "final"}

(***************************************************************************)
(* C3                                                                      *)
(***************************************************************************)
Has(step, word) == \E k \in DOMAIN step : step[k] = word
IsCollectionInstall(step) ==
    \E k \in DOMAIN step :
        /\ k + 2 <= Len(step)
        /\ step[k] = "ansible-galaxy" /\ step[k + 1] = "collection" /\ step[k + 2] = "install"
CollectionInstalls == { i \in DOMAIN steps : IsCollectionInstall(steps[i]) }
KeyringSupplied == original_galaxy_keyring # None
GpgDisablePrefix == "ANSIBLE_GALAXY_DISABLE_GPG_VERIFY=1"

\* C3: a collection-install instruction contains --keyring iff a keyring
\* was supplied, never both --keyring and the GPG-disable prefix, and
\* exactly one of the two; the finished galaxy stage holds one such
\* instruction and a sequence without galaxy stage holds none.
C3_KeyringIffSupplied ==
    /\ \A i \in CollectionInstalls :
          /\ Has(steps[i], "--keyring") <=> KeyringSupplied
          /\ ~(Has(steps[i], "--keyring") /\ Has(steps[i], GpgDisablePrefix))
          /\ Has(steps[i], "--keyring") \/ Has(steps[i], GpgDisablePrefix)
          /\ StageOf[i] = "galaxy"
    /\ (Finished /\ HasGalaxyStage) => Cardinality(CollectionInstalls) = 1
    /\ ~HasGalaxyStage => CollectionInstalls = {}

C3_Witness ==
    /\ Finished
    /\ HasGalaxyStage
    /\ KeyringSupplied
    /\ Truthy(galaxy_required_valid_signature_count)
    /\ \E i \in CollectionInstalls : Has(steps[i], "--keyring")

(***************************************************************************)
(* C4                                                                      *)
(***************************************************************************)
IsIntrospect(step) == Has(step, "/output/scripts/introspect.py")
Introspects == { i \in DOMAIN steps : IsIntrospect(steps[i]) }
OnlyPythonResolves ==
    /\ definition.deps = DepsOf({<<"python", FALSE>>})
    /\ definition.exclude_all_from_collections = None
Occurrences(step, word) == Cardinality({ k \in DOMAIN step : step[k] = word })

\* C4: for a version-3 definition in which only a python dependency
\* resolves, whatever the build context held before, the sequence has
\* exactly the stages base, builder and final, and the introspection
\* command has exactly one --user-pip=requirements.txt flag and no
\* --user-bindep flag (nor any other flag of a file this run did not stage).
C4_FlagsOnlyForStagedFiles ==
    (Finished /\ definition.version = 3 /\ OnlyPythonResolves) =>
        /\ StageNames = {"base", "builder", "final"}
        /\ Cardinality(Introspects) = 1
        /\ \A i \in Introspects :
              /\ Occurrences(steps[i], "--user-pip=" \o STD_PIP_FILENAME) = 1
              /\ ~Has(steps[i], "--user-bindep=" \o STD_BINDEP_FILENAME)
              /\ ~Has(steps[i], "--exclude-pip-reqs=exclude-" \o STD_PIP_FILENAME)

(***************************************************************************)
(* C8                                                                      *)
(***************************************************************************)
\* the COPY instructions that read the build context (no --from)
ContextCopies ==
    { i \in DOMAIN steps :
        /\ ~IsCustom(i)
        /\ Keyword(steps[i]) = "COPY"
        /\ steps[i][2] \notin {"--from=galaxy", "--from=builder"} }
\* a COPY source names an existing path, with or without a trailing slash
ExistsInContext(source) == \E path \in context : source \in {path, path \o "/"}

\* C8: at every point of prepare(), and when it has completed, the source
\* of every COPY instruction that reads the build context exists in the
\* build context.
C8_CopySourcesExist == \A i \in ContextCopies : ExistsInContext(steps[i][2])

C8_Witness ==
    /\ Finished
    /\ definition.version = 1
    /\ Truthy(definition.builder_image)
    /\ context # {}
    /\ \E i \in ContextCopies : steps[i][2] = "_build/ansible.cfg"
    /\ \E i \in ContextCopies : steps[i][2] = "_build/scripts/pip_install"
    /\ \E i \in ContextCopies : steps[i][2] = "_build/exclude-bindep.txt"
    /\ \E i \in ContextCopies : steps[i][2] = "_build"

(***************************************************************************)
(* C5                                                                      *)
(***************************************************************************)
DeclaresEntrypointAndCmd ==
    /\ Truthy(definition.container_init.entrypoint)
    /\ Truthy(definition.container_init.cmd)
UserDeclared == definition.version >= 3 /\ Truthy(definition.options.user)
\* the items of a list value, or the str itself, separated by blanks
Unquoted(x) ==
    IF x.py = "list" THEN Join([k \in 1..Len(x.v) |-> x.v[k].v], " ") ELSE x.v
\* purge, LABEL and the optional USER line come right before position n
ClosingBefore(n) ==
    LET label == IF UserDeclared THEN n - 2 ELSE n - 1
    IN  /\ label >= 2
        /\ UserDeclared => Keyword(steps[n - 1]) = "USER"
        /\ Render(steps[label]) = "LABEL ansible-execution-environment=true"
        /\ Render(steps[label - 1]) = "RUN rm -rf /output"

\* C5 as stated: with both an entrypoint and a cmd declared, the last two
\* instructions are ENTRYPOINT <entrypoint> and CMD <cmd> with the values
\* passed through unquoted, after the purge, LABEL and optional USER lines;
\* for "/bin/sh" and ["-c","true"]: ENTRYPOINT /bin/sh and CMD -c true.
C5_EntrypointCmdUnquoted ==
    (Finished /\ DeclaresEntrypointAndCmd) =>
        LET n == Len(steps)
        IN  /\ n >= 2
            /\ Render(steps[n - 1]) = "ENTRYPOINT " \o Unquoted(definition.container_init.entrypoint)
            /\ Render(steps[n]) = "CMD " \o Unquoted(definition.container_init.cmd)
            /\ ClosingBefore(n - 1)

\* C5, amended: with both declared, the last two instructions are
\* ENTRYPOINT and CMD, after the purge, LABEL and optional USER lines; a
\* value given as a str is passed through verbatim, a value given as a list
\* is put as Python prints the list: for "/bin/sh" and ["-c","true"] the
\* lines are ENTRYPOINT /bin/sh and CMD ['-c', 'true'].
C5_EntrypointCmdLast ==
    (Finished /\ DeclaresEntrypointAndCmd) =>
        LET n == Len(steps)
            ep == definition.container_init.entrypoint
            cmd == definition.container_init.cmd
        IN  /\ n >= 2
            /\ Keyword(steps[n - 1]) = "ENTRYPOINT"
            /\ Keyword(steps[n]) = "CMD"
            /\ ep.py = "str" => Render(steps[n - 1]) = "ENTRYPOINT " \o ep.v
            /\ cmd.py = "str" => Render(steps[n]) = "CMD " \o cmd.v
            /\ cmd = List(<<Str("-c"), Str("true")>>) =>
                  Render(steps[n]) = "CMD ['-c', 'true']"
            /\ ClosingBefore(n - 1)
            /\ StageOf[n] = "final"

C5_Witness ==
    /\ Finished
    /\ definition.container_init.entrypoint = Str("/bin/sh")
    /\ definition.container_init.cmd = List(<<Str("-c"), Str("true")>>)
    /\ UserDeclared
    /\ Render(steps[Len(steps) - 1]) = "ENTRYPOINT /bin/sh"

(***************************************************************************)
(* C6                                                                      *)
(***************************************************************************)
CanonicalArgOrder ==
    <<"EE_BASE_IMAGE", "EE_BUILDER_IMAGE", "PYCMD", "PYPKG", "PKGMGR_PRESERVE_CACHE",
      "ANSIBLE_GALAXY_CLI_COLLECTION_OPTS", "ANSIBLE_GALAXY_CLI_ROLE_OPTS",
      "ANSIBLE_INSTALL_REFS", "PKGMGR">>
\* the value an argument resolves to
ResolvedArg(name) ==
    CASE name = "PYCMD" ->
            IF definition.python_path \in {None, Str("")}
            THEN Str("/usr/bin/python3") ELSE definition.python_path
      [] name = "PYPKG" -> definition.python_package_system
      [] name = "ANSIBLE_INSTALL_REFS" -> definition.ansible_ref_install_list
      [] name = "PKGMGR" -> definition.options.package_manager_path
      [] OTHER -> definition.build_arg_defaults[name]
\* the names a block must declare, in order
DeclaredArgs ==
    SelectSeq(CanonicalArgOrder,
              LAMBDA name : /\ name = "PKGMGR" => definition.version >= 3
                            /\ ResolvedArg(name) # None)
IsArgBlockLine(i) == origin[i] \in {"global_args", "stage_args"}
\* the first line of the ARG block line i belongs to
BlockStart(i) ==
    First({ b \in 1..i : \A j \in b..i : IsArgBlockLine(j) /\ origin[j] = origin[i] })

CustomStages == {"base", "builder", "final"}
\* the lines the user gave for a section: the items of a list, or the text
\* pieces of a block
UserLines(section) ==
    LET given == definition.additional_build_steps
        value == given.v[section]
    IN  IF given = None \/ section \notin DOMAIN given.v THEN <<>>
        ELSE IF value.py = "list" THEN [k \in 1..Len(value.v) |-> value.v[k].v]
        ELSE SelectSeq(value.v, LAMBDA piece : piece \notin Whitespace)
\* the instructions of stage s that the assembler generated after the
\* stage header and its ARG block
StageLogic(s) ==
    LET stage == StageOf
    IN  { i \in DOMAIN steps :
            /\ stage[i] = s
            /\ ~IsCustom(i)
            /\ origin[i] \notin {"stage", "stage_args"}
            /\ steps[i] # <<>> }
\* the steps of a section are the user's lines, in order, next to each other
SectionVerbatim(section) ==
    LET at == By(section)
        lines == UserLines(section)
    IN  /\ Cardinality(at) = Len(lines)
        /\ at # {} =>
              /\ at = First(at)..Last(at)
              /\ \A k \in 1..Len(lines) : steps[First(at) + k - 1] = <<lines[k]>>

\* C7 as stated: for base, builder and final, the prepend_<stage> lines come
\* before every assembler-generated instruction of the stage's logic, and
\* the append_<stage> lines are the last instruction lines of the stage.
C7_CustomStepsAtStageBoundaries ==
    Finished =>
        \A s \in CustomStages :
            /\ SectionVerbatim("prepend_" \o s)
            /\ SectionVerbatim("append_" \o s)
            /\ \A p \in By("prepend_" \o s) : \A g \in StageLogic(s) : p < g
            /\ \A a \in By("append_" \o s) : \A g \in StageLogic(s) : g < a

\* what the assembler puts between the ARG block and the prepend_<stage>
\* lines: in base the two COPY instructions that stage the scripts, in
\* builder the pre-install instructions
IsStagePreface(s, g) ==
    \/ s = "base" /\ Keyword(steps[g]) = "COPY"
                  /\ steps[g][2] \in {"_build/scripts/", "_build/scripts/entrypoint"}
    \/ s = "builder" /\ Render(steps[g]) \in
          {"RUN $PYCMD -m pip install --no-cache-dir bindep pyyaml packaging",
           "COPY _build/scripts/pip_install /output/scripts/pip_install",
           "RUN /output/scripts/pip_install $PYCMD"}
\* what the assembler puts after the append_final lines
IsFinalClosing(s, g) ==
    /\ s = "final"
    /\ \/ Render(steps[g]) = "RUN rm -rf /output"
       \/ Keyword(steps[g]) \in {"LABEL", "USER", "ENTRYPOINT", "CMD"}

\* C7, amended: for base, builder and final, the lines of prepend_<stage>
\* and append_<stage> appear as given, in order and next to each other;
\* the prepend lines come after the stage's ARG block and, in base, after
\* the two COPY instructions staging the scripts and, in builder, after the
\* pre-install instructions, and before every other generated instruction
\* of the stage; the append_base and append_builder lines are the last
\* instructions of their stage; the append_final lines come after every
\* other generated instruction of the final stage except the purge RUN rm
\* -rf /output, LABEL, the optional USER, ENTRYPOINT and CMD, which follow.
C7_CustomStepsPlacement ==
    Finished =>
        \A s \in CustomStages :
            /\ SectionVerbatim("prepend_" \o s)
            /\ SectionVerbatim("append_" \o s)
            /\ \A p \in By("prepend_" \o s) :
                  /\ StageOf[p] = s
                  /\ \A g \in StageLogic(s) : g < p <=> IsStagePreface(s, g)
            /\ \A a \in By("append_" \o s) :
                  /\ StageOf[a] = s
                  /\ \A g \in StageLogic(s) : a < g <=> IsFinalClosing(s, g)
            /\ \A p \in By("prepend_" \o s) : \A a \in By("append_" \o s) : p < a

C7_Witness ==
    /\ Finished
    /\ HasGalaxyStage
    /\ \A s \in CustomStages :
          /\ Cardinality(By("prepend_" \o s)) >= 2
          /\ Cardinality(By("append_" \o s)) >= 2
    /\ \E g \in StageLogic("base") : steps[g] = install_refs_step
    /\ \E g \in StageLogic("builder") : Has(steps[g], "/output/scripts/introspect.py")

(***************************************************************************)
(* C9                                                                      *)
(***************************************************************************)
AfterStaging == pc \notin {"prepare", "base", "context"}
WarningsFor(i) == { k \in DOMAIN warnings : warnings[k].entry = i }
NothingFound(entry) == Len(entry.matches) = 0
DestFolder(entry) == path_join(user_content_subfolder, entry.dest)

\* C9: an additional-build-file entry whose absolute src does not exist or
\* whose glob matches nothing logs exactly one warning and is skipped: its
\* destination folder is not created and nothing is copied for it, no COPY
\* instruction is added for any entry, every other entry is still handled,
\* and the staging and the part of prepare() after it can be taken.
C9_MissingBuildFilesSkipped ==
    LET entries == definition.additional_build_files
    IN  /\ AfterStaging =>
              /\ \A i \in DOMAIN entries :
                    IF NothingFound(entries[i])
                    THEN /\ Cardinality(WarningsFor(i)) = 1
                         /\ i \notin handled
                         /\ \A path \in context :
                               path \in entry_copies(entries[i]) =>
                                  \E j \in handled : path \in entry_copies(entries[j])
                    ELSE /\ WarningsFor(i) = {}
                         /\ i \in handled
                         /\ DestFolder(entries[i]) \in context
              /\ Len(warnings) =
                    Cardinality({ i \in DOMAIN entries : NothingFound(entries[i]) })
              /\ { steps[i] : i \in By("_create_folder_copy_files") } =
                    { <<"COPY", "_build/scripts/", "/output/scripts/">>,
                      <<"COPY", "_build/scripts/entrypoint", "/opt/builder/bin/entrypoint">> }
        /\ ~AfterStaging => warnings = <<>> /\ handled = {}
        /\ pc \in {"context", "base_steps"} => ENABLED Next

C9_Witness ==
    LET entries == definition.additional_build_files
    IN  /\ pc = "written"
        /\ Len(entries) >= 2
        /\ entries[1].absolute /\ NothingFound(entries[1])
        /\ ~entries[2].absolute /\ ~NothingFound(entries[2])
        /\ entries[1].dest # entries[2].dest
        /\ Len(warnings) = 1
        /\ DestFolder(entries[1]) \notin context

(***************************************************************************)
(* C10                                                                     *)
(***************************************************************************)
AfterBaseStage == pc \notin {"prepare", "base", "context", "base_steps"}
\* where a line stands in the base stage
BaseStepsEqual(line) ==
    LET stage == StageOf
    IN  { i \in DOMAIN steps : stage[i] = "base" /\ ~IsCustom(i) /\ Render(steps[i]) = line }
SystemPackageInstalls ==
    BaseStepsEqual("RUN $PKGMGR install $PYPKG -y ; if [ -z $PKGMGR_PRESERVE_CACHE ]; then $PKGMGR clean all; fi")
PipBootstraps == BaseStepsEqual("RUN /output/scripts/pip_install $PYCMD")
InstallRefs == BaseStepsEqual("RUN $PYCMD -m pip install --no-cache-dir $ANSIBLE_INSTALL_REFS")
DeclaresRefs == Truthy(definition.ansible_ref_install_list)
DeclaresSystemPython == Truthy(definition.python_package_system)
WantsPipBootstrap == definition.version >= 3 /\ ~definition.options.skip_pip_install
\* the three installs stand between the prepend_base and append_base lines,
\* in the order system package, pip bootstrap, install refs
BaseInstallsOrdered ==
    /\ \A i \in SystemPackageInstalls \cup PipBootstraps \cup InstallRefs :
          /\ \A p \in By("prepend_base") : p < i
          /\ \A a \in By("append_base") : i < a
    /\ \A i \in SystemPackageInstalls : \A j \in PipBootstraps \cup InstallRefs : i < j
    /\ \A i \in PipBootstraps : \A j \in InstallRefs : i < j

\* C10 as stated: once the base stage is generated, the install-refs
\* instruction is there whenever install refs are declared, the system
\* package install whenever a system python package is declared, the pip
\* bootstrap whenever version >= 3 and skip_pip_install is not set, between
\* the prepend_base and append_base lines and in that order.
C10_BaseInstallsWheneverDeclared ==
    AfterBaseStage =>
        /\ DeclaresRefs => InstallRefs # {}
        /\ DeclaresSystemPython => SystemPackageInstalls # {}
        /\ WantsPipBootstrap => PipBootstraps # {}
        /\ BaseInstallsOrdered

\* C10, amended: when no builder image is configured, each of the three
\* instructions is emitted exactly when its condition holds, once, between
\* the prepend_base and append_base lines and in the order system package,
\* pip bootstrap, install refs; when a builder image is configured the base
\* stage has none of them.
C10_BaseInstallsWithoutBuilderImage ==
    AfterBaseStage =>
        /\ ~Truthy(definition.builder_image) =>
              /\ Cardinality(InstallRefs) = (IF DeclaresRefs THEN 1 ELSE 0)
              /\ Cardinality(SystemPackageInstalls) = (IF DeclaresSystemPython THEN 1 ELSE 0)
              /\ Cardinality(PipBootstraps) = (IF WantsPipBootstrap THEN 1 ELSE 0)
        /\ Truthy(definition.builder_image) =>
              InstallRefs \cup SystemPackageInstalls \cup PipBootstraps = {}
        /\ BaseInstallsOrdered

C10_Witness ==
    /\ Finished
    /\ ~Truthy(definition.builder_image)
    /\ InstallRefs # {} /\ SystemPackageInstalls # {} /\ PipBootstraps # {}
    /\ By("prepend_base") # {} /\ By("append_base") # {}

(***************************************************************************)
(* C11                                                                     *)
(***************************************************************************)
KeyringModeFlags == {"--required-valid-signature-count", "--ignore-signature-status-code"}
HasKeyringModeFlag(step) == \E flag \in KeyringModeFlags : Has(step, flag)
KeyringMode(step) == Has(step, "--keyring") /\ ~Has(step, GpgDisablePrefix)
DisabledMode(step) ==
    /\ Has(step, GpgDisablePrefix)
    /\ ~Has(step, "--keyring")
    /\ ~HasKeyringModeFlag(step)

\* C11: every collection-install instruction is in exactly one of two
\* modes: keyring mode when a keyring was supplied (--keyring, with the
\* signature-count and ignore-status-code flags as given), disabled mode
\* otherwise (the GPG-disable prefix and none of the three flags); the
\* signature-count and ignore-status-code flags never appear on an
\* instruction that has the GPG-disable prefix.
C11_SignatureModesExclusive ==
    \A i \in CollectionInstalls :
        /\ KeyringSupplied => KeyringMode(steps[i])
        /\ ~KeyringSupplied => DisabledMode(steps[i])
        /\ Has(steps[i], GpgDisablePrefix) => ~HasKeyringModeFlag(steps[i])

(***************************************************************************)
(* C12                                                                     *)
(***************************************************************************)
BuilderFroms ==
    { i \in DOMAIN steps :
        ~IsCustom(i) /\ Keyword(steps[i]) = "FROM" /\ steps[i][4] = "builder" }
BuilderStageDone == pc \in {"final", "done", "written"}
BuilderImageConfigured == definition.builder_image # None
TrioInstall ==
    <<"RUN", "$PYCMD", "-m", "pip", "install", "--no-cache-dir",
      "bindep", "pyyaml", "packaging">>
PipInstallCopy == <<"COPY", "_build/scripts/pip_install", "/output/scripts/pip_install">>
PipInstallRun == <<"RUN", "/output/scripts/pip_install", "$PYCMD">>
\* the assembler-generated lines of the builder stage that equal the step
InBuilderStage(step) ==
    LET stage == StageOf
    IN  { i \in DOMAIN steps : ~IsCustom(i) /\ stage[i] = "builder" /\ steps[i] = step }

\* C12: the sequence holds at most one builder stage and, once the builder
\* stage is generated, exactly one; it is FROM $EE_BUILDER_IMAGE only when
\* version <= 2 or a builder image is configured, and FROM base otherwise;
\* FROM base it holds the bindep/pyyaml/packaging install once and no
\* pip_install COPY or RUN, FROM the builder image it holds the pip_install
\* COPY directly followed by the pip_install RUN, once, and no such install.
C12_BuilderStageImage ==
    /\ Cardinality(BuilderFroms) <= 1
    /\ BuilderStageDone => Cardinality(BuilderFroms) = 1
    /\ \A i \in BuilderFroms :
          /\ steps[i][2] \in {"$EE_BUILDER_IMAGE", "base"}
          /\ steps[i][2] = "$EE_BUILDER_IMAGE" =>
                (definition.version <= 2 \/ BuilderImageConfigured)
          /\ ~(definition.version <= 2 \/ BuilderImageConfigured) => steps[i][2] = "base"
          /\ BuilderStageDone =>
                IF steps[i][2] = "base"
                THEN /\ Cardinality(InBuilderStage(TrioInstall)) = 1
                     /\ InBuilderStage(PipInstallCopy) = {}
                     /\ InBuilderStage(PipInstallRun) = {}
                ELSE /\ InBuilderStage(TrioInstall) = {}
                     /\ Cardinality(InBuilderStage(PipInstallCopy)) = 1
                     /\ Cardinality(InBuilderStage(PipInstallRun)) = 1
                     /\ \A c \in InBuilderStage(PipInstallCopy) :
                           c + 1 \in InBuilderStage(PipInstallRun)

C12_Witness ==
    /\ Finished
    /\ definition.version = 3
    /\ ~BuilderImageConfigured
    /\ \E i \in BuilderFroms : steps[i][2] = "base"
    /\ InBuilderStage(TrioInstall) # {}

(***************************************************************************)
(* C13                                                                     *)
(***************************************************************************)
\* the build arguments an instruction refers to as $NAME
References(step) == { name \in ArgNames : Has(step, "$" \o name) }
\* the top-of-file block declares the argument (with its value)
DeclaredAtTop(name) ==
    /\ ResolvedArg(name) # None
    /\ \E j \in By("global_args") :
          steps[j] = <<"ARG", name \o "=\"" \o Format(ResolvedArg(name)) \o "\"">>
\* an ARG line of the same stage, before line i, declares the argument
DeclaredInStage(name, i) ==
    LET start == StageStarts
    IN  \E j \in 1..(i - 1) :
            IsArg(j) /\ start[j] = start[i] /\ start[j] # 0 /\ steps[j] = <<"ARG", name>>

\* C13: every $NAME an assembler-generated instruction refers to is
\* declared by an ARG line of that name: in the top-of-file block for a
\* FROM line, earlier in the same stage for any other instruction.
C13_ReferencedArgsDeclared ==
    \A i \in DOMAIN steps : ~IsCustom(i) =>
        \A name \in References(steps[i]) :
            IF Keyword(steps[i]) = "FROM"
            THEN DeclaredAtTop(name)
            ELSE DeclaredInStage(name, i)

====
